---- MODULE Spec2Model ----
(***************************************************************************)
(* Apartment listing service: the Express/Prisma backend                   *)
(* (backend/src/controllers, backend/src/services, backend/src/validators, *)
(* middleware/errorHandlers, routes/apartment.routes).                     *)
(*                                                                         *)
(* A request handler is a chain of steps separated by its awaits: the      *)
(* synchronous prefix (schema validation, issuing the first query), then   *)
(* one step per database call.  The database executes each call            *)
(* atomically; calls of different requests interleave.                     *)
(*                                                                         *)
(* Strings are sequences of one-character strings, so that substring       *)
(* search, case folding and code-unit ordering are computed, not assumed.  *)
(***************************************************************************)
EXTENDS Integers, Sequences, FiniteSets, TLC

VARIABLES store, reqs, client, img, grid

vars == <<store, reqs, client, img, grid>>

(***************************************************************************)
(* Bounds of the model.                                                    *)
(***************************************************************************)
MaxRecords == 3      \* records the store may grow to
MaxInFlight == 2     \* request slots of the concurrent specification
MaxPage == 3         \* largest page number a list request asks for
MaxPageSize == 2     \* largest explicit small pageSize a list request asks for

Slots == 1..MaxInFlight

(***************************************************************************)
(* Program constants (validators/apartmentValidators.ts).                  *)
(***************************************************************************)
MinPage == 1
DefaultPage == 1
MinPageSize == 1
PageSizeLimit == 100
DefaultPageSize == 10
MinStringLen == 1

(***************************************************************************)
(* Strings.                                                                *)
(***************************************************************************)
LowerChar(c) ==
    CASE c = "A" -> "a"
      [] c = "B" -> "b"
      [] c = "N" -> "n"
      [] c = "U" -> "u"
      [] c = "V" -> "v"
      [] OTHER -> c

\* UTF-16 code unit of a character (what Array.prototype.sort compares).
CharCode(c) ==
    CASE c = "A" -> 65
      [] c = "B" -> 66
      [] c = "N" -> 78
      [] c = "U" -> 85
      [] c = "V" -> 86
      [] c = "a" -> 97
      [] c = "b" -> 98
      [] c = "n" -> 110
      [] c = "u" -> 117
      [] c = "v" -> 118
      [] OTHER -> 0

ToLower(s) == [i \in 1..Len(s) |-> LowerChar(s[i])]

\* sub occurs in s as a contiguous run of characters
IsSubstring(sub, s) ==
    \E i \in 0..(Len(s) - Len(sub)) : SubSeq(s, i + 1, i + Len(sub)) = sub

\* Prisma { contains: sub, mode: 'insensitive' }
ContainsInsensitive(s, sub) == IsSubstring(ToLower(sub), ToLower(s))

\* Prisma { equals: t, mode: 'insensitive' }
EqualsInsensitive(s, t) == ToLower(s) = ToLower(t)

\* s sorts strictly before t in code-unit order (the default comparison of sort())
StrLess(s, t) ==
    \E k \in 0..Len(s) :
        /\ k <= Len(t)
        /\ \A i \in 1..k : s[i] = t[i]
        /\ \/ k = Len(s) /\ k < Len(t)
           \/ k < Len(s) /\ k < Len(t) /\ CharCode(s[k + 1]) < CharCode(t[k + 1])

(***************************************************************************)
(* JavaScript numbers, as far as the schemas look at them: NaN, or a       *)
(* multiple of one half (twice is the doubled value).                      *)
(***************************************************************************)
Num(n) == [nan |-> FALSE, twice |-> 2 * n]
Half(n) == [nan |-> FALSE, twice |-> 2 * n + 1]
NaN == [nan |-> TRUE, twice |-> 0]

IsInt(x) == ~x.nan /\ x.twice % 2 = 0
AtLeast(x, n) == ~x.nan /\ x.twice >= 2 * n
AtMost(x, n) == ~x.nan /\ x.twice <= 2 * n
MoreThan(x, n) == ~x.nan /\ x.twice > 2 * n
IntOf(x) == x.twice \div 2

(***************************************************************************)
(* Query-string parameters as Express hands them over (req.query).         *)
(*   Absent      the parameter is missing (undefined)                      *)
(*   Digits(n)   the decimal digits of the integer n, e.g. "2"             *)
(*   Fraction(n) "n.5"                                                     *)
(*   Garbage     text that is no number, e.g. "abc"                        *)
(* An optional string parameter is <<>> (undefined), <<s>> (the string s)  *)
(* or <<s, t>> (the parameter repeated: Express delivers an array).        *)
(***************************************************************************)
Absent == [t |-> "absent", n |-> 0]
Digits(n) == [t |-> "digits", n |-> n]
Fraction(n) == [t |-> "fraction", n |-> n]
Garbage == [t |-> "text", n |-> 0]

\* z.coerce.number(): Number(value)
CoerceNumber(p) ==
    CASE p.t = "digits" -> Num(p.n)
      [] p.t = "fraction" -> Half(p.n)
      [] OTHER -> NaN

\* z.coerce.number().int().min(lo) [.max(hi)] .default(dflt); hi < 0: no maximum
ParseNumberParamNoMax(p, lo, hi, dflt) ==
    LET x == IF p.t = "absent" THEN Num(dflt) ELSE CoerceNumber(p)
        ok == IsInt(x) /\ AtLeast(x, lo)
    IN  [ok |-> ok, value |-> IF ok THEN IntOf(x) ELSE 0]
ParseNumberParam(p, lo, hi, dflt) ==
    LET x == IF p.t = "absent" THEN Num(dflt) ELSE CoerceNumber(p)
        ok == IsInt(x) /\ AtLeast(x, lo) /\ (hi >= 0 => AtMost(x, hi))
    IN  [ok |-> ok, value |-> IF ok THEN IntOf(x) ELSE 0]

\* z.string().optional()
IsOptionalString(o) == Len(o) <= 1

\* JavaScript truthiness of an optional string: undefined and "" are falsy
Truthy(o) == Len(o) = 1 /\ o[1] # <<>>

NoFilters == [search |-> <<>>, project |-> <<>>, page |-> 0, pageSize |-> 0]

listApartmentQuerySchema(q) ==
    LET pg == ParseNumberParam(q.page, MinPage, -1, DefaultPage)
        ps == ParseNumberParam(q.pageSize, MinPageSize, PageSizeLimit, DefaultPageSize)
        ok == /\ IsOptionalString(q.search)
              /\ IsOptionalString(q.project)
              /\ pg.ok
              /\ ps.ok
    IN  [success |-> ok,
         data |-> IF ok
                  THEN [search |-> q.search, project |-> q.project,
                        page |-> pg.value, pageSize |-> ps.value]
                  ELSE NoFilters]

\* The string and number rules of the create schema.  address, city, country
\* and description obey the rule of name (min(1)); images and amenities are
\* optional and default to []; none of them is read by any query.
createApartmentSchema(b) ==
    /\ Len(b.name) >= MinStringLen
    /\ Len(b.unitNumber) >= MinStringLen
    /\ Len(b.project) >= MinStringLen
    /\ IsInt(b.bedrooms) /\ AtLeast(b.bedrooms, 0)
    /\ IsInt(b.bathrooms) /\ AtLeast(b.bathrooms, 0)
    /\ AtLeast(b.price, 0)
    /\ MoreThan(b.area, 0)

(***************************************************************************)
(* The requests the model sends.                                           *)
(***************************************************************************)
Body(name, unit, project) ==
    [name |-> name, unitNumber |-> unit, project |-> project,
     bedrooms |-> Num(2), bathrooms |-> Num(1), price |-> Half(100), area |-> Num(80)]

BodyA == Body(<<"n">>, <<"u">>, <<"a", "b">>)

\* BodyA and the second body are one unit of one project up to letter case;
\* project "b" is contained in project "ab"; the last body contains no "a".
ValidBodies ==
    { BodyA,
      Body(<<"n">>, <<"U">>, <<"A", "B">>),
      Body(<<"a">>, <<"v">>, <<"b">>),
      Body(<<"n">>, <<"v">>, <<"a", "b">>),
      Body(<<"n">>, <<"u">>, <<"b">>) }

InvalidBodies ==
    { [BodyA EXCEPT !.name = <<>>],
      [BodyA EXCEPT !.unitNumber = <<>>],
      [BodyA EXCEPT !.project = <<>>],
      [BodyA EXCEPT !.bedrooms = Num(-1)],
      [BodyA EXCEPT !.bathrooms = Half(1)],
      [BodyA EXCEPT !.price = Num(-1)],
      [BodyA EXCEPT !.area = Num(0)] }

CreateBodies == ValidBodies \cup InvalidBodies

SearchValues == { <<>>, << <<>> >>, << <<"A">> >>, << <<"U">> >> }
ProjectValues == { <<>>, << <<"b">> >>, << <<"A", "B">> >> }
PageParams == { Absent, Garbage } \cup { Digits(n) : n \in 0..MaxPage }
PageSizeParams ==
    { Absent, Fraction(1), Digits(PageSizeLimit + 1) } \cup { Digits(n) : n \in 0..MaxPageSize }

\* Filters crossed with the pages of small page sizes and with the defaults;
\* every form of page and pageSize, valid or not, on the unfiltered list;
\* and one query whose search parameter is repeated.
ListQueries ==
    [search : SearchValues, project : ProjectValues,
     page : { Digits(n) : n \in 1..MaxPage }, pageSize : { Digits(n) : n \in 1..MaxPageSize }]
    \cup [search : SearchValues, project : ProjectValues, page : {Absent}, pageSize : {Absent}]
    \cup [search : {<<>>}, project : {<<>>}, page : PageParams, pageSize : PageSizeParams]
    \cup { [search |-> << <<"A">>, <<"U">> >>, project |-> <<>>,
            page |-> Absent, pageSize |-> Absent] }

\* the pages of the unfiltered list, in small page sizes, and the records
\* created while they are read
PagedQueries ==
    [search : { <<>> }, project : { <<>> },
     page : { Digits(n) : n \in 1..MaxPage }, pageSize : { Digits(n) : n \in 1..MaxPageSize }]
PagedBodies == { BodyA, Body(<<"a">>, <<"v">>, <<"b">>), Body(<<"n">>, <<"u">>, <<"b">>) }

Ids == 1..(MaxRecords + 1)

(***************************************************************************)
(* The store (table "Apartment") and the queries the service runs on it.   *)
(***************************************************************************)
Max(a, b) == IF a >= b THEN a ELSE b
Min(a, b) == IF a <= b THEN a ELSE b

\* All orders in which the rows of S can come back
Orderings(S) ==
    { f \in [1..Cardinality(S) -> S] : \A i, j \in 1..Cardinality(S) : f[i] = f[j] => i = j }

\* orderBy: { createdAt: 'desc' }: rows of equal createdAt come in any order
OrderedByCreatedAtDesc(S) ==
    { f \in Orderings(S) : \A i, j \in 1..Cardinality(S) : i < j => f[i].createdAt >= f[j].createdAt }

\* the OR group of listApartments: name, unitNumber or project contains search
SearchNameOrUnit(r, s) ==
    \/ ContainsInsensitive(r.name, s)
    \/ ContainsInsensitive(r.unitNumber, s)
SearchMatches(r, s) ==
    \/ ContainsInsensitive(r.name, s)
    \/ ContainsInsensitive(r.unitNumber, s)
    \/ ContainsInsensitive(r.project, s)

\* the where clause of listApartments: where.OR and where.project are ANDed
WhereEither(r, f) ==
    \/ Truthy(f.search) /\ SearchMatches(r, f.search[1])
    \/ Truthy(f.project) /\ ContainsInsensitive(r.project, f.project[1])
    \/ ~Truthy(f.search) /\ ~Truthy(f.project)
Where(r, f) ==
    /\ Truthy(f.search) => SearchMatches(r, f.search[1])
    /\ Truthy(f.project) => ContainsInsensitive(r.project, f.project[1])

SkipNext(page, pageSize) == page * pageSize
Skip(page, pageSize) == (page - 1) * pageSize

WindowClamped(rows, skip, take) ==
    IF skip >= Len(rows)
    THEN SubSeq(rows, Max(1, Len(rows) - take + 1), Len(rows))
    ELSE SubSeq(rows, skip + 1, Min(skip + take, Len(rows)))
\* skip / take on an ordered result
Window(rows, skip, take) ==
    IF skip >= Len(rows) THEN <<>> ELSE SubSeq(rows, skip + 1, Min(skip + take, Len(rows)))

\* prisma.apartment.findMany({ where, orderBy, skip, take }): the possible results
FindMany(st, f) ==
    { Window(rows, Skip(f.page, f.pageSize), f.pageSize) :
        rows \in OrderedByCreatedAtDesc({ r \in st : Where(r, f) }) }

\* prisma.apartment.count({ where })
Count(st, f) == Cardinality({ r \in st : Where(r, f) })

FloorDiv(a, b) == a \div b
\* Math.ceil(a / b) for a >= 0, b >= 1
CeilDiv(a, b) == (a + b - 1) \div b

\* the value listApartments returns
ListResult(items, total, f) ==
    [items |-> items,
     meta |-> [page |-> f.page, pageSize |-> f.pageSize, total |-> total,
               totalPages |-> CeilDiv(total, f.pageSize)]]

Range(seq) == { seq[i] : i \in 1..Len(seq) }

\* Array.from(new Set(seq)): first occurrences, in insertion order
RECURSIVE Dedupe(_)
Dedupe(seq) ==
    IF seq = <<>> THEN <<>>
    ELSE LET front == Dedupe(SubSeq(seq, 1, Len(seq) - 1))
             last == seq[Len(seq)]
         IN  IF last \in Range(front) THEN front ELSE Append(front, last)

\* .filter(Boolean) on strings: drops the empty string (and null)
RECURSIVE FilterBoolean(_)
FilterBoolean(seq) ==
    IF seq = <<>> THEN <<>>
    ELSE IF Head(seq) = <<>> THEN FilterBoolean(Tail(seq))
    ELSE <<Head(seq)>> \o FilterBoolean(Tail(seq))

RemoveAt(seq, i) == SubSeq(seq, 1, i - 1) \o SubSeq(seq, i + 1, Len(seq))

\* Array.prototype.sort() without a comparator: ascending code-unit order
RECURSIVE SortStrings(_)
Unsorted(seq) == seq
SortStrings(seq) ==
    IF seq = <<>> THEN <<>>
    ELSE LET i == CHOOSE k \in 1..Len(seq) :
                      /\ \A j \in 1..Len(seq) : ~StrLess(seq[j], seq[k])
                      /\ \A j \in 1..(k - 1) : seq[j] # seq[k]
         IN  <<seq[i]>> \o SortStrings(RemoveAt(seq, i))

\* the value listProjects returns when findMany delivers rows
ListProjectsResult(rows) ==
    SortStrings(FilterBoolean(Dedupe([i \in 1..Len(rows) |-> rows[i].project])))

\* the where clause of createApartment's findFirst
SameUnitExact(r, input) ==
    /\ r.unitNumber = input.unitNumber
    /\ r.project = input.project
SameUnit(r, input) ==
    /\ EqualsInsensitive(r.unitNumber, input.unitNumber)
    /\ EqualsInsensitive(r.project, input.project)

\* TIMESTAMP(3) DEFAULT CURRENT_TIMESTAMP: the clock never runs backwards and
\* has millisecond resolution, so a new row carries the newest row's time or a
\* later one.  Only the order of the timestamps is read, so the first row's is 1.
Latest(st) == IF st = {} THEN 0 ELSE CHOOSE t \in { r.createdAt : r \in st } : \A r \in st : r.createdAt <= t
NextTimes(st) == IF st = {} THEN {1} ELSE { Latest(st), Latest(st) + 1 }

\* new Prisma.Decimal(x) in a DECIMAL(12,2) column: the value in hundredths
PrismaDecimal(x) == [cents |-> x.twice * 50]
\* Decimal.toNumber()
toNumber(d) == [nan |-> FALSE, twice |-> d.cents \div 50]

NewRecordLastId(st, input, t) ==
    [id |-> Max(1, Cardinality(st)), createdAt |-> t,
     name |-> input.name, unitNumber |-> input.unitNumber, project |-> input.project,
     bedrooms |-> input.bedrooms, bathrooms |-> input.bathrooms,
     price |-> PrismaDecimal(input.price), area |-> input.area]
\* the row prisma.apartment.create stores: the input, a fresh id, the timestamp
NewRecord(st, input, t) ==
    [id |-> Cardinality(st) + 1, createdAt |-> t,
     name |-> input.name, unitNumber |-> input.unitNumber, project |-> input.project,
     bedrooms |-> input.bedrooms, bathrooms |-> input.bathrooms,
     price |-> PrismaDecimal(input.price), area |-> input.area]

\* serializeApartment: the row with its price converted back to a number
serializeApartment(a) == [a EXCEPT !.price = toNumber(a.price)]

(***************************************************************************)
(* Errors and responses.                                                   *)
(***************************************************************************)
HttpError(code, msg) == [isHttpError |-> TRUE, statusCode |-> code, message |-> msg]

ConflictMessage == "Apartment with the same unit number already exists in this project"

errorHandlerEcho(err) == [status |-> 500, body |-> [message |-> err.message]]
\* middleware/errorHandlers.ts errorHandler: every error becomes the generic 500
errorHandler(err) == [status |-> 500, body |-> [message |-> "Internal server error"]]

\* the catch block of the controller's createApartment: next(error)
CreateCatch(err) == errorHandler(err)

\* the catch block of listApartments: an HttpError is answered with its own
\* status and message, anything else goes to next(error)
ListCatch(err) ==
    IF err.isHttpError
    THEN [status |-> err.statusCode, body |-> [message |-> err.message]]
    ELSE errorHandler(err)

\* the catch blocks of listProjects and getApartmentById: next(error)
PlainCatch(err) == errorHandler(err)

\* what a rejected database call throws: an Error that is no HttpError and
\* whose message describes the failure
StorageErrors == { "db unreachable", "query timed out" }
StorageError(detail) == [isHttpError |-> FALSE, statusCode |-> 0, message |-> detail]

Idle ==
    [pc |-> "idle", kind |-> "none", input |-> <<>>, filters |-> NoFilters,
     existing |-> FALSE, pending |-> {}, items |-> <<>>, total |-> 0,
     status |-> 0, body |-> <<>>, dbOps |-> 0, error |-> <<>>]

\* res.status(status).json(body)
Reply(r, status, body) == [r EXCEPT !.pc = "done", !.status = status, !.body = body]

ValidationErrors == [errors |-> "flatten"]

Free(s) == reqs[s].pc = "idle"
Quiet == \A s \in Slots : Free(s)

\* create requests that may still insert
Inserting == { s \in Slots : reqs[s].pc \in {"findFirst", "create"} }

(***************************************************************************)
(* POST /api/apartments: controller createApartment, service               *)
(* createApartment.                                                        *)
(***************************************************************************)
\* safeParse of the body; a valid body goes on to the service, which issues findFirst
BeginCreate(s, b) ==
    /\ Free(s)
    /\ createApartmentSchema(b) => Cardinality(store) + Cardinality(Inserting) < MaxRecords
    /\ LET r == [Idle EXCEPT !.kind = "create", !.input = b]
       IN  reqs' = [reqs EXCEPT ![s] =
                      IF createApartmentSchema(b)
                      THEN [r EXCEPT !.pc = "findFirst"]
                      ELSE Reply(r, 400, ValidationErrors)]
    /\ UNCHANGED <<store, client, img, grid>>

CreateFindFirstAfterWrite(s) ==
    /\ reqs[s].pc = "findFirst"
    /\ LET found == { x \in store : SameUnit(x, reqs[s].input) }
           r == [reqs[s] EXCEPT !.dbOps = @ + 2, !.existing = (found # {})]
           e == CreateCatch(HttpError(409, ConflictMessage))
           row == NewRecord(store, reqs[s].input, Latest(store) + 1)
       IN  /\ store' = store \cup {row}
           /\ reqs' = [reqs EXCEPT ![s] =
                         IF found # {}
                         THEN Reply(r, e.status, e.body)
                         ELSE Reply(r, 201, serializeApartment(row))]
    /\ UNCHANGED <<client, img, grid>>
\* findFirst answers: a match throws HttpError(409), which the controller
\* passes to next(); otherwise the service issues create
CreateFindFirst(s) ==
    /\ reqs[s].pc = "findFirst"
    /\ LET found == { x \in store : SameUnit(x, reqs[s].input) }
           r == [reqs[s] EXCEPT !.dbOps = @ + 1, !.existing = (found # {})]
           e == CreateCatch(HttpError(409, ConflictMessage))
       IN  reqs' = [reqs EXCEPT ![s] =
                      IF found # {}
                      THEN Reply(r, e.status, e.body)
                      ELSE [r EXCEPT !.pc = "create"]]
    /\ UNCHANGED <<store, client, img, grid>>

CreateInsertUnlessTaken(s) ==
    /\ reqs[s].pc = "create"
    /\ \E t \in NextTimes(store) :
        LET row == NewRecord(store, reqs[s].input, t)
            r == [reqs[s] EXCEPT !.dbOps = @ + 1]
            e == CreateCatch(HttpError(409, ConflictMessage))
        IN  IF \E x \in store : SameUnit(x, reqs[s].input)
            THEN /\ store' = store
                 /\ reqs' = [reqs EXCEPT ![s] = Reply(r, e.status, e.body)]
            ELSE /\ store' = store \cup {row}
                 /\ reqs' = [reqs EXCEPT ![s] = Reply(r, 201, serializeApartment(row))]
    /\ UNCHANGED <<client, img, grid>>
\* create answers: the row is stored and returned with 201
CreateInsert(s) ==
    /\ reqs[s].pc = "create"
    /\ \E t \in NextTimes(store) :
        LET row == NewRecord(store, reqs[s].input, t)
            r == [reqs[s] EXCEPT !.dbOps = @ + 1]
        IN  /\ store' = store \cup {row}
            /\ reqs' = [reqs EXCEPT ![s] = Reply(r, 201, serializeApartment(row))]
    /\ UNCHANGED <<client, img, grid>>

(***************************************************************************)
(* GET /api/apartments: controller listApartments, service listApartments. *)
(***************************************************************************)
\* safeParse of the query; valid filters go on to the service, which issues
\* findMany and count together (Promise.all)
BeginList(s, q) ==
    /\ Free(s)
    /\ LET parsed == listApartmentQuerySchema(q)
           r == [Idle EXCEPT !.kind = "list", !.input = q]
       IN  reqs' = [reqs EXCEPT ![s] =
                      IF parsed.success
                      THEN [r EXCEPT !.pc = "query", !.filters = parsed.data,
                                     !.pending = {"findMany", "count"}]
                      ELSE Reply(r, 400, ValidationErrors)]
    /\ UNCHANGED <<store, client, img, grid>>

\* a query of the pair has answered; after the second one the handler responds
ListSettle(r) ==
    IF r.pending = {}
    THEN Reply(r, 200, ListResult([i \in 1..Len(r.items) |-> serializeApartment(r.items[i])],
                                  r.total, r.filters))
    ELSE r

ListFindMany(s) ==
    /\ reqs[s].pc = "query"
    /\ "findMany" \in reqs[s].pending
    /\ \E rows \in FindMany(store, reqs[s].filters) :
        reqs' = [reqs EXCEPT ![s] =
                   ListSettle([reqs[s] EXCEPT !.items = rows, !.dbOps = @ + 1,
                                              !.pending = @ \ {"findMany"}])]
    /\ UNCHANGED <<store, client, img, grid>>

ListCount(s) ==
    /\ reqs[s].pc = "query"
    /\ "count" \in reqs[s].pending
    /\ reqs' = [reqs EXCEPT ![s] =
                  ListSettle([reqs[s] EXCEPT !.total = Count(store, reqs[s].filters),
                                             !.dbOps = @ + 1,
                                             !.pending = @ \ {"count"}])]
    /\ UNCHANGED <<store, client, img, grid>>

(***************************************************************************)
(* GET /api/apartments/projects: controller and service listProjects.      *)
(***************************************************************************)
BeginProjects(s) ==
    /\ Free(s)
    /\ reqs' = [reqs EXCEPT ![s] = [Idle EXCEPT !.kind = "projects", !.pc = "selectProjects"]]
    /\ UNCHANGED <<store, client, img, grid>>

\* findMany({ select: { project } }) answers, in whatever row order
ProjectsFindMany(s) ==
    /\ reqs[s].pc = "selectProjects"
    /\ \E rows \in Orderings(store) :
        reqs' = [reqs EXCEPT ![s] =
                   Reply([reqs[s] EXCEPT !.dbOps = @ + 1], 200, ListProjectsResult(rows))]
    /\ UNCHANGED <<store, client, img, grid>>

(***************************************************************************)
(* GET /api/apartments/:id: controller and service getApartmentById.       *)
(***************************************************************************)
\* a route parameter is never empty, so the handler goes on to findUnique
BeginGet(s, id) ==
    /\ Free(s)
    /\ reqs' = [reqs EXCEPT ![s] = [Idle EXCEPT !.kind = "get", !.input = id, !.pc = "findUnique"]]
    /\ UNCHANGED <<store, client, img, grid>>

GetFindUniqueAndDelete(s) ==
    /\ reqs[s].pc = "findUnique"
    /\ LET found == { x \in store : x.id = reqs[s].input }
           r == [reqs[s] EXCEPT !.dbOps = @ + 1]
       IN  /\ store' = store \ found
           /\ reqs' = [reqs EXCEPT ![s] =
                         IF found = {}
                         THEN Reply(r, 404, [message |-> "Apartment not found"])
                         ELSE Reply(r, 200, serializeApartment(CHOOSE x \in found : TRUE))]
    /\ UNCHANGED <<client, img, grid>>
GetFindFirst(s) ==
    /\ reqs[s].pc = "findUnique"
    /\ LET r == [reqs[s] EXCEPT !.dbOps = @ + 1]
       IN  reqs' = [reqs EXCEPT ![s] =
                      IF store = {}
                      THEN Reply(r, 404, [message |-> "Apartment not found"])
                      ELSE Reply(r, 200, serializeApartment(CHOOSE x \in store : TRUE))]
    /\ UNCHANGED <<store, client, img, grid>>
\* findUnique({ where: { id } }) answers: null is answered 404, a row 200
GetFindUnique(s) ==
    /\ reqs[s].pc = "findUnique"
    /\ LET found == { x \in store : x.id = reqs[s].input }
           r == [reqs[s] EXCEPT !.dbOps = @ + 1]
       IN  reqs' = [reqs EXCEPT ![s] =
                      IF found = {}
                      THEN Reply(r, 404, [message |-> "Apartment not found"])
                      ELSE Reply(r, 200, serializeApartment(CHOOSE x \in found : TRUE))]
    /\ UNCHANGED <<store, client, img, grid>>

\* a database call of the request rejects: the await throws into the
\* handler's catch block (for the list pair, Promise.all rejects with the
\* first rejection)
AwaitingDatabase(s) == reqs[s].pc \in {"findFirst", "create", "query", "selectProjects", "findUnique"}
StorageFails(s, detail) ==
    /\ AwaitingDatabase(s)
    /\ LET err == StorageError(detail)
           e == IF reqs[s].kind = "create" THEN CreateCatch(err)
                ELSE IF reqs[s].kind = "list" THEN ListCatch(err)
                ELSE PlainCatch(err)
           r == [reqs[s] EXCEPT !.dbOps = @ + 1, !.pending = {}, !.error = <<detail>>]
       IN  reqs' = [reqs EXCEPT ![s] = Reply(r, e.status, e.body)]
    /\ UNCHANGED <<store, client, img, grid>>

\* The response has been sent: the request is over and its slot is free again
Complete(s) ==
    /\ reqs[s].pc = "done"
    /\ reqs' = [reqs EXCEPT ![s] = Idle]
    /\ UNCHANGED <<store, client, img, grid>>

(***************************************************************************)
(* The browser client: app/ApartmentsClient.tsx with                       *)
(* components/SearchFilters.tsx, fetching through useSWR.                  *)
(*                                                                         *)
(* useSWR keeps one cache entry per key (the request URL).  For the key of *)
(* the current render it returns data (the cached response, if any) and    *)
(* isLoading (a request for the key is under way and the key has no data). *)
(* A response is stored under the key it was requested for.                *)
(*                                                                         *)
(* A string of the client is a character sequence, "" being <<>>; a value  *)
(* that may be undefined or null is <<>> or <<v>>.                         *)
(***************************************************************************)
SeedRecords == 28     \* records in the table the client browses
SeedInProject == 10   \* of which this many, the oldest, are in project "ab"
MaxFetches == 5       \* list requests the client sends
MaxPending == 2       \* list requests outstanding at once
MaxScroll == 2        \* largest scroll offset
MaxScrollFetches == 3 \* list requests the client sends while the user scrolls

InitialPage == 1
ClientPageSize == 9
FallbackTotalPages == 1

SeedLetters == <<"u", "v", "n", "b", "a">>

\* A table with two projects, one name containing the other; units are
\* distinct within a project; creation times are pairwise distinct.
SeedRecord(i) ==
    LET j == (i - 1) % 25
        unit == <<SeedLetters[(j \div 5) + 1], SeedLetters[(j % 5) + 1]>>
        project == IF i <= SeedInProject THEN <<"a", "b">> ELSE <<"b">>
    IN  [NewRecord({}, Body(<<"n">>, unit, project), i) EXCEPT !.id = i]

SeedStore == { SeedRecord(i) : i \in 1..SeedRecords }

\* orderBy createdAt desc when no two rows share a creation time
RECURSIVE NewestFirst(_)
NewestFirst(S) ==
    IF S = {} THEN <<>>
    ELSE LET newest == CHOOSE r \in S : \A x \in S : x.createdAt <= r.createdAt
         IN  <<newest>> \o NewestFirst(S \ {newest})

\* the query string of the key: empty filters are left out
QueryParams(k) ==
    [search |-> IF k.search # <<>> THEN <<k.search>> ELSE <<>>,
     project |-> IF k.project # <<>> THEN <<k.project>> ELSE <<>>,
     page |-> Digits(k.page), pageSize |-> Digits(k.pageSize)]

\* What the client reads of an item of a response: its id and updatedAt (a
\* row is never updated, so updatedAt is its creation time).  The other
\* fields are handed on to the cards unread.
ClientItem(a) == [id |-> a.id, updatedAt |-> a.createdAt]

\* the items of a response as the client holds them
ClientItems(page) == [i \in 1..Len(page) |-> ClientItem(serializeApartment(page[i]))]

\* GET /api/apartments with filters f on a table at rest
ListAtRest(st, f) ==
    ListResult(ClientItems(Window(NewestFirst({ r \in st : Where(r, f) }),
                                  Skip(f.page, f.pageSize), f.pageSize)),
               Count(st, f), f)

\* fetcher -> fetchApartments -> GET /api/apartments
FetchParsed(st, parsed) == [ok |-> parsed.success, data |-> ListAtRest(st, parsed.data)]

\* what the user can type into the search box
SearchTexts == { <<>>, <<"a">> }

\* The keys the client can ask for on the seeded table, and the answer to
\* each, computed once.
SeedPages == CeilDiv(SeedRecords, ClientPageSize)
SeedKeys ==
    [search : SearchTexts, project : { <<>> } \cup { r.project : r \in SeedStore },
     page : 1..SeedPages, pageSize : {ClientPageSize}]
SeedAnswers ==
    { <<k, FetchParsed(SeedStore, listApartmentQuerySchema(QueryParams(k)))>> : k \in SeedKeys }

FetchApartments(st, k) ==
    IF st = SeedStore /\ k \in SeedKeys
    THEN (CHOOSE e \in SeedAnswers : e[1] = k)[2]
    ELSE FetchParsed(st, listApartmentQuerySchema(QueryParams(k)))

\* the options of the select
ProjectOptions == { <<>> } \cup { r.project : r \in store }

\* the cache key of the render: search, project, page and pageSize
Query(c) == [search |-> c.search, project |-> c.project, page |-> c.page, pageSize |-> c.pageSize]

\* useSWR(...).data of the render
Data(c) == IF Query(c) \in DOMAIN c.cache THEN <<c.cache[Query(c)]>> ELSE <<>>

\* useSWR(...).isLoading of the render
IsLoading(c) == Query(c) \in c.inflight /\ Data(c) = <<>>

DefaultData ==
    [items |-> <<>>,
     meta |-> [page |-> InitialPage, pageSize |-> ClientPageSize, total |-> 0,
               totalPages |-> FallbackTotalPages]]

\* data ?? lastData ?? the empty default
RenderData(c) ==
    IF Data(c) # <<>> THEN Data(c)[1]
    ELSE IF c.lastData # <<>> THEN c.lastData[1]
    ELSE DefaultData

\* the section of the page: placeholder, empty state or grid
View(c) ==
    IF IsLoading(c) THEN [kind |-> "loading", items |-> <<>>]
    ELSE IF Len(RenderData(c).items) = 0 THEN [kind |-> "empty", items |-> <<>>]
    ELSE [kind |-> "grid", items |-> RenderData(c).items]

\* the pagination nav and its two buttons
NavShown(c) == RenderData(c).meta.totalPages > 1
PrevEnabled(c) == NavShown(c) /\ ~(RenderData(c).meta.page <= 1)
NextEnabled(c) == NavShown(c) /\ ~(RenderData(c).meta.page >= RenderData(c).meta.totalPages)

\* the effect on data: a defined data becomes lastData
LastDataEffect(c) == [c EXCEPT !.lastData = IF Data(c) # <<>> THEN Data(c) ELSE @]

\* the effect that restores the scroll position: it runs when data has
\* changed (another key, or another response for the same key) and is defined
DataChanged(old, c) == Data(c) # <<>> /\ (Query(c) # Query(old) \/ Data(c) # Data(old))
ScrollEffectTop(old, c) == IF DataChanged(old, c) THEN [c EXCEPT !.scrollY = 0] ELSE c
ScrollEffect(old, c) == IF DataChanged(old, c) THEN [c EXCEPT !.scrollY = c.scrollPos] ELSE c

\* the effects of the render that follows the state old
Effects(old, c) == ScrollEffect(old, LastDataEffect(c))

\* useSWR with a request started for the key of the render
Requested(c) == [c EXCEPT !.inflight = @ \cup {Query(c)}, !.fetches = @ + 1]

\* The render after a state change.  A new key with no data and no request
\* under way is requested at once; a key with cached data is shown from the
\* cache and requested again when useSWR revalidates it (Revalidate).
Rendered(old, c) ==
    LET k == Query(c)
        start == /\ k # Query(old)
                 /\ k \notin c.inflight
                 /\ k \notin DOMAIN c.cache
    IN  Effects(old, IF start THEN Requested(c) ELSE c)

ClientStart ==
    Requested([form |-> [search |-> <<>>, project |-> <<>>],
               search |-> <<>>, project |-> <<>>,
               page |-> InitialPage, pageSize |-> ClientPageSize,
               lastData |-> <<>>, cache |-> <<>>, inflight |-> {}, fetches |-> 0,
               scrollY |-> 0, scrollPos |-> 0])

\* captureScroll: scrollPosRef.current = window.scrollY || 0
captureScroll(c) == [c EXCEPT !.scrollPos = c.scrollY]

\* handleFilter
handleFilterKeepPage(c, newSearch, newProject) ==
    [captureScroll(c) EXCEPT !.search = newSearch, !.project = newProject]
handleFilter(c, newSearch, newProject) ==
    [captureScroll(c) EXCEPT !.search = newSearch, !.project = newProject, !.page = InitialPage]

\* a user action has led to the client state c
ClientStep(c) ==
    /\ client' = Rendered(client, c)
    /\ client'.fetches <= MaxFetches
    /\ Cardinality(client'.inflight) <= MaxPending
    /\ UNCHANGED <<store, reqs, img, grid>>

\* the user leaves text in the search box and option in the select (the
\* onChange handlers of the two fields) and submits the form: onSubmit
onSubmit(text, option) ==
    LET c == [client EXCEPT !.form = [search |-> text, project |-> option]]
    IN  ClientStep(handleFilter(c, c.form.search, c.form.project))

\* SearchFilters resetFilters
resetFilters ==
    ClientStep(handleFilter([client EXCEPT !.form = [search |-> <<>>, project |-> <<>>]],
                            <<>>, <<>>))

\* the Previous and Next buttons
PrevPage(c) == Max(1, c.page - 1)
NextPage(c) == Min(RenderData(c).meta.totalPages, c.page + 1)

onPrev ==
    /\ PrevEnabled(client)
    /\ ClientStep([captureScroll(client) EXCEPT !.page = PrevPage(client)])

onNext ==
    /\ NextEnabled(client)
    /\ ClientStep([captureScroll(client) EXCEPT !.page = NextPage(client)])

StoredAsCurrent(c, k, data) ==
    [c EXCEPT !.cache = [x \in DOMAIN c.cache \cup {Query(c)} |->
                            IF x = Query(c) THEN data ELSE c.cache[x]],
              !.inflight = @ \ {k}]
\* the cache with data stored under key k, whose request is over
Stored(c, k, data) ==
    [c EXCEPT !.cache = [x \in DOMAIN c.cache \cup {k} |-> IF x = k THEN data ELSE c.cache[x]],
              !.inflight = @ \ {k}]

\* a response with an ok status is parsed and handed to useSWR
Arrived(k, response) ==
    /\ response.ok
    /\ client' = Effects(client, Stored(client, k, response.data))

\* the response to the request for key k arrives
FetchSucceeds(k) ==
    /\ k \in client.inflight
    /\ Arrived(k, FetchApartments(store, k))
    /\ UNCHANGED <<store, reqs, img, grid>>

\* the request for key k fails: fetchApartments throws
FetchFails(k) ==
    /\ k \in client.inflight
    /\ client' = [client EXCEPT !.inflight = @ \ {k}]
    /\ UNCHANGED <<store, reqs, img, grid>>

\* the user scrolls the window to offset y
Scroll(y) ==
    /\ y # client.scrollY
    /\ client' = [client EXCEPT !.scrollY = y]
    /\ UNCHANGED <<store, reqs, img, grid>>

\* useSWR requests the current key again (stale cached data, retry after an
\* error, focus, reconnect)
Revalidate ==
    /\ Query(client) \notin client.inflight
    /\ client.fetches < MaxFetches
    /\ Cardinality(client.inflight) < MaxPending
    /\ client' = Requested(client)
    /\ UNCHANGED <<store, reqs, img, grid>>

(***************************************************************************)
(* The image loader: components/SafeImage.tsx.                             *)
(*                                                                         *)
(* Time is counted in seconds.  A handler reads the state and props of the *)
(* latest render; a timer callback keeps the src and retries of the render *)
(* in which handleError set it.  The browser loads the URL given to the    *)
(* image element and reports each load once, by a load or an error event.  *)
(***************************************************************************)
MaxRetryCount == 3    \* largest retryCount a caller passes
MaxTime == 6          \* seconds the clock runs while no timer is pending
MaxErrorCalls == 2    \* calls of the caller's onError that are counted
MaxSrcChanges == 2    \* times the parent passes another src

DefaultRetryCount == 2

Srcs == { "s1", "s2" }
FirstSrc == "s1"

\* the URL handed to the image element: src itself, or src with ?retry=k&t=now
PlainUrl(src) == [base |-> src, retry |-> 0, t |-> 0]
RetryUrl(src, k, t) == [base |-> src, retry |-> k, t |-> t]

\* delay of the timer set after a failure seen with the given retries
RetryDelay(retries) == retries + 1

ImageStart(retryCount) ==
    [src |-> FirstSrc, retryCount |-> retryCount,
     hasError |-> FALSE, isLoading |-> TRUE, retries |-> 0, currentSrc |-> PlainUrl(FirstSrc),
     timers |-> {}, loading |-> TRUE, now |-> 0, failures |-> 0, onErrorCalls |-> 0,
     changes |-> 0]

\* the image element is rendered, not the fallback
ImageMounted == ~img.hasError

\* onLoad: handleLoad
ImageLoads ==
    /\ ImageMounted
    /\ img.loading
    /\ img' = [img EXCEPT !.loading = FALSE, !.isLoading = FALSE]
    /\ UNCHANGED <<store, reqs, client, grid>>

\* the branch of handleError
MayRetryAlways(i) == TRUE
MayRetryOnceMore(i) == i.retries <= i.retryCount
MayRetry(i) == i.retries < i.retryCount

\* onError: handleError
ImageFails ==
    /\ ImageMounted
    /\ img.loading
    /\ img' = IF MayRetry(img)
              THEN [img EXCEPT !.loading = FALSE, !.failures = @ + 1,
                               !.timers = @ \cup {[src |-> img.src, retries |-> img.retries,
                                                   delay |-> RetryDelay(img.retries),
                                                   due |-> img.now + RetryDelay(img.retries)]}]
              ELSE [img EXCEPT !.loading = FALSE, !.failures = @ + 1,
                               !.hasError = TRUE, !.isLoading = FALSE,
                               !.onErrorCalls = Min(@ + 1, MaxErrorCalls)]
    /\ UNCHANGED <<store, reqs, client, grid>>

\* the callback of a timer runs; a new URL makes a mounted image element load
TimerFires(tm) ==
    /\ tm \in img.timers
    /\ tm.due <= img.now
    /\ img' = [img EXCEPT !.timers = @ \ {tm},
                          !.retries = @ + 1,
                          !.currentSrc = RetryUrl(tm.src, tm.retries + 1, img.now),
                          !.isLoading = TRUE,
                          !.loading = ImageMounted]
    /\ UNCHANGED <<store, reqs, client, grid>>

\* a second passes; a timer that is due runs first
Tick ==
    /\ img.now < MaxTime \/ img.timers # {}
    /\ \A tm \in img.timers : tm.due > img.now
    /\ img' = [img EXCEPT !.now = @ + 1]
    /\ UNCHANGED <<store, reqs, client, grid>>

\* the effect on src
ResetKeepRetries(i, src) ==
    [i EXCEPT !.currentSrc = PlainUrl(src), !.hasError = FALSE, !.isLoading = TRUE]
ResetEffect(i, src) ==
    [i EXCEPT !.currentSrc = PlainUrl(src), !.hasError = FALSE, !.isLoading = TRUE,
              !.retries = 0]

\* the parent passes another src; the effect runs and the new URL is loaded
ChangeSrc(src) ==
    /\ src # img.src
    /\ img.changes < MaxSrcChanges
    /\ img' = [ResetEffect(img, src) EXCEPT !.src = src, !.loading = TRUE, !.failures = 0,
                                            !.changes = @ + 1]
    /\ UNCHANGED <<store, reqs, client, grid>>

(***************************************************************************)
(* The item grid (ApartmentsClient.tsx, ApartmentGrid.tsx).  On every      *)
(* render of the client a new items array may arrive; the grid function    *)
(* runs again unless the memo comparator finds the old and the new props   *)
(* equal.                                                                  *)
(***************************************************************************)
MaxItems == 3        \* items of one list handed to the grid

\* the item lists a response may hold: no record twice
ItemLists ==
    { l \in UNION { [1..n -> [id : 1..MaxRecords, updatedAt : 1..2]] : n \in 0..MaxItems } :
        \A i, j \in 1..Len(l) : l[i].id = l[j].id => i = j }

\* Array.prototype.join
RECURSIVE join(_, _)
join(parts, sep) ==
    IF parts = <<>> THEN <<>>
    ELSE IF Len(parts) = 1 THEN parts[1]
    ELSE parts[1] \o <<sep>> \o join(Tail(parts), sep)

\* items.map(a => `${a.id}:${a.updatedAt}`).join('|')
itemsKey(items) ==
    join([i \in 1..Len(items) |-> <<Digits(items[i].id), ":", Digits(items[i].updatedAt)>>], "|")

\* useMemo(() => items, [itemsKey]): the array kept until the key changes
itemsMemo(g, items) == IF itemsKey(items) = g.itemsKey THEN g.itemsMemo ELSE items

\* the comparator of React.memo: TRUE keeps the grid as it is
areEqualIds(prev, next) ==
    /\ Len(prev.items) = Len(next.items)
    /\ \A i \in 1..Len(prev.items) : prev.items[i].id = next.items[i].id

areEqual(prev, next) ==
    /\ Len(prev.items) = Len(next.items)
    /\ \A i \in 1..Len(prev.items) :
        /\ prev.items[i].id = next.items[i].id
        /\ prev.items[i].updatedAt = next.items[i].updatedAt

\* the grid after its first render with an items array
GridMounted(items) ==
    [items |-> items, itemsKey |-> itemsKey(items), itemsMemo |-> items, rendered |-> TRUE]

\* the client renders again with the items array of its render data
ParentRenders(items) ==
    /\ grid' = [items |-> items,
                itemsKey |-> itemsKey(items),
                itemsMemo |-> itemsMemo(grid, items),
                rendered |-> ~areEqual([items |-> grid.itemsMemo],
                                       [items |-> itemsMemo(grid, items)])]
    /\ UNCHANGED <<store, reqs, client, img>>

(***************************************************************************)
(* Specifications.                                                         *)
(*   Spec            one request at a time: a request is sent when the     *)
(*                   previous one has been answered                        *)
(*   SpecConcurrent  create requests of several clients, their database    *)
(*                   calls interleaved                                     *)
(***************************************************************************)
Init ==
    /\ store = {}
    /\ reqs = [s \in Slots |-> Idle]
    /\ client = ClientStart
    /\ img = ImageStart(DefaultRetryCount)
    /\ grid = GridMounted(<<>>)

Next ==
    \/ \E b \in CreateBodies : Quiet /\ BeginCreate(1, b)
    \/ CreateFindFirst(1)
    \/ CreateInsert(1)
    \/ \E q \in ListQueries : Quiet /\ BeginList(1, q)
    \/ ListFindMany(1)
    \/ ListCount(1)
    \/ Quiet /\ BeginProjects(1)
    \/ ProjectsFindMany(1)
    \/ \E id \in Ids : Quiet /\ BeginGet(1, id)
    \/ GetFindUnique(1)
    \/ Complete(1)

Spec == Init /\ [][Next]_vars

NextConcurrent ==
    \E s \in Slots :
        \/ \E b \in CreateBodies : BeginCreate(s, b)
        \/ CreateFindFirst(s)
        \/ CreateInsert(s)
        \/ Complete(s)

SpecConcurrent == Init /\ [][NextConcurrent]_vars

\*   SpecFaulty      as Spec, with database calls that may reject
NextFaulty ==
    \/ Next
    \/ \E detail \in StorageErrors : StorageFails(1, detail)

SpecFaulty == Init /\ [][NextFaulty]_vars

\*   SpecInterleaved list and create requests of several clients, their
\*                   database calls interleaved
NextInterleaved ==
    \/ \E b \in PagedBodies : BeginCreate(2, b)
    \/ CreateFindFirst(2)
    \/ CreateInsert(2)
    \/ \E q \in PagedQueries : BeginList(1, q)
    \/ ListFindMany(1)
    \/ ListCount(1)
    \/ \E s \in Slots : Complete(s)

SpecInterleaved == Init /\ [][NextInterleaved]_vars

\*   SpecSuccessive  list and create requests sent one after another, the
\*                   responses kept while the next request is served
Settled == \A s \in Slots : reqs[s].pc \in {"idle", "done"}

NextSuccessive ==
    \E s \in Slots :
        \/ \E b \in PagedBodies : Settled /\ BeginCreate(s, b)
        \/ CreateFindFirst(s)
        \/ CreateInsert(s)
        \/ \E q \in PagedQueries : Settled /\ BeginList(s, q)
        \/ ListFindMany(s)
        \/ ListCount(s)
        \/ Complete(s)

SpecSuccessive == Init /\ [][NextSuccessive]_vars

(***************************************************************************)
(*   SpecClient      the browser client on a seeded table at rest          *)
(*   SpecImage       one image loader whose src the parent may change      *)
(*   SpecImageFixed  one image loader whose src stays the same             *)
(***************************************************************************)
InitClient ==
    /\ store = SeedStore
    /\ reqs = [s \in Slots |-> Idle]
    /\ client = ClientStart
    /\ img = ImageStart(DefaultRetryCount)
    /\ grid = GridMounted(<<>>)

NextClient ==
    \/ \E text \in SearchTexts, option \in ProjectOptions : onSubmit(text, option)
    \/ resetFilters
    \/ onPrev
    \/ onNext
    \/ \E k \in client.inflight : FetchSucceeds(k)
    \/ \E k \in client.inflight : FetchFails(k)
    \/ Revalidate

SpecClient == InitClient /\ [][NextClient]_vars

\*   SpecScroll      the browser client with a user who also scrolls
NextScroll ==
    \/ NextClient /\ client'.fetches <= MaxScrollFetches
    \/ \E y \in 0..MaxScroll : Scroll(y)

SpecScroll == InitClient /\ [][NextScroll]_vars

InitImage ==
    /\ store = {}
    /\ reqs = [s \in Slots |-> Idle]
    /\ client = ClientStart
    /\ \E retryCount \in 0..MaxRetryCount : img = ImageStart(retryCount)
    /\ grid = GridMounted(<<>>)

NextImageFixed ==
    \/ ImageLoads
    \/ ImageFails
    \/ \E tm \in img.timers : TimerFires(tm)
    \/ Tick

SpecImageFixed == InitImage /\ [][NextImageFixed]_vars

NextImage ==
    \/ ImageLoads
    \/ ImageFails
    \/ \E tm \in img.timers : TimerFires(tm)
    \/ Tick
    \/ \E src \in Srcs : ChangeSrc(src)

SpecImage == InitImage /\ [][NextImage]_vars

\*   SpecImageFailing  one image loader whose src stays the same and whose
\*                     loads all fail; the browser reports every failed
\*                     load, time passes and a timer that is due runs
NextImageFailing ==
    \/ ImageFails
    \/ \E tm \in img.timers : TimerFires(tm)
    \/ Tick

SpecImageFailing ==
    /\ InitImage
    /\ [][NextImageFailing]_vars
    /\ WF_vars(ImageFails)
    /\ WF_vars(\E tm \in img.timers : TimerFires(tm))
    /\ WF_vars(Tick)

\*   SpecGrid        the item grid, mounted with some list, whose parent
\*                   renders again and again with the list of a response
InitGrid ==
    /\ store = {}
    /\ reqs = [s \in Slots |-> Idle]
    /\ client = ClientStart
    /\ img = ImageStart(DefaultRetryCount)
    /\ \E items \in ItemLists : grid = GridMounted(items)

NextGrid == \E items \in ItemLists : ParentRenders(items)

SpecGrid == InitGrid /\ [][NextGrid]_vars

(***************************************************************************)
(* Properties.                                                             *)
(***************************************************************************)
Done(s, kind) == reqs[s].pc = "done" /\ reqs[s].kind = kind

\* two rows are the same unit of the same project, letter case ignored
SamePair(a, b) ==
    /\ ToLower(a.unitNumber) = ToLower(b.unitNumber)
    /\ ToLower(a.project) = ToLower(b.project)

Serialized(S) == { serializeApartment(r) : r \in S }

\* C1: a schema-valid create whose (project, unitNumber) matches an existing
\* record, letter case ignored, is answered with 409 and the duplicate-unit
\* message, not with the generic 500.
C1_DuplicateAnswered409 ==
    \A s \in Slots :
        (Done(s, "create") /\ reqs[s].existing)
            => (reqs[s].status = 409 /\ reqs[s].body.message = ConflictMessage)

\* C2: no step of a create request whose existence check finds a match
\* changes the store: neither the step that accepts the request nor the step
\* in which findFirst reports the match.
C2_DuplicateWritesNothing ==
    [][\A s \in Slots :
          (/\ reqs'[s].pc # reqs[s].pc
           /\ reqs'[s].kind = "create"
           /\ reqs'[s].pc = "findFirst" \/ reqs'[s].existing)
              => store' = store]_vars

C2_DuplicateRefused ==
    \E s \in Slots :
        /\ Done(s, "create")
        /\ reqs[s].existing
        /\ Cardinality(store) >= 1
        /\ reqs[s].dbOps = 1

\* C3: with requests handled one at a time, no two stored records are the
\* same unit of the same project, letter case ignored.
C3_NoDuplicateUnits ==
    \A a, b \in store : SamePair(a, b) => a = b

C3_DuplicateRefusedInFullerStore ==
    /\ Cardinality(store) >= 2
    /\ Done(1, "create")
    /\ reqs[1].existing
    /\ \E a \in store : SamePair(a, reqs[1].input) /\ a.unitNumber # reqs[1].input.unitNumber

\* C4: the insert of a create request is unconditional once its existence
\* check has passed: whatever was stored in between, the request is answered
\* 201 and its row is in the store.  (The witness is the interleaving in which
\* two requests for one pair both insert.)
C4_PassedCheckInserts ==
    \A s \in Slots :
        (Done(s, "create") /\ createApartmentSchema(reqs[s].input) /\ ~reqs[s].existing)
            => (reqs[s].status = 201 /\ reqs[s].body \in Serialized(store))

C4_BothInsertedOnePair ==
    \E s, t \in Slots :
        /\ s # t
        /\ Done(s, "create") /\ reqs[s].status = 201
        /\ Done(t, "create") /\ reqs[t].status = 201
        /\ ~reqs[s].existing /\ ~reqs[t].existing
        /\ \E a, b \in store :
              /\ a # b
              /\ SamePair(a, b)
              /\ reqs[s].body = serializeApartment(a)
              /\ reqs[t].body = serializeApartment(b)

\* the records a list request's filters select, read off the filters directly
Selected(f) ==
    { r \in store :
        /\ Truthy(f.search) =>
              \/ ContainsInsensitive(r.name, f.search[1])
              \/ ContainsInsensitive(r.unitNumber, f.search[1])
              \/ ContainsInsensitive(r.project, f.search[1])
        /\ Truthy(f.project) => ContainsInsensitive(r.project, f.project[1]) }

\* how many records of M are newer than r
Rank(r, M) == Cardinality({ x \in M : x.createdAt > r.createdAt })

DistinctTimes(S) == \A a, b \in S : a.createdAt = b.createdAt => a = b

\* C5: when creation times are pairwise distinct, the items of page p are
\* the selected records at offsets (p-1)*pageSize .. p*pageSize-1 of the
\* newest-first order, in that order; every selected record lies on one of
\* the pages 1..totalPages.
C5_PageIsOffsetWindow ==
    \A s \in Slots :
        (Done(s, "list") /\ reqs[s].status = 200 /\ DistinctTimes(store)) =>
            LET f == reqs[s].filters
                M == Selected(f)
                items == reqs[s].body.items
                first == (f.page - 1) * f.pageSize
            IN  /\ Len(items) =
                     Cardinality({ r \in M : first <= Rank(r, M) /\ Rank(r, M) < first + f.pageSize })
                /\ \A i \in 1..Len(items) :
                      \E r \in M : items[i] = serializeApartment(r) /\ Rank(r, M) = first + i - 1
                /\ \A r \in M : (Rank(r, M) \div f.pageSize) + 1 <= reqs[s].body.meta.totalPages

C5_LastPageShort ==
    /\ Done(1, "list")
    /\ reqs[1].status = 200
    /\ DistinctTimes(store)
    /\ Cardinality(store) = 3
    /\ reqs[1].filters.page = 2
    /\ reqs[1].filters.pageSize = 2
    /\ reqs[1].body.meta.total = 3
    /\ Len(reqs[1].body.items) = 1

\* what the model's forms of page and pageSize say about the request
IsIntegerIn(p, lo, hi) == p.t = "digits" /\ lo <= p.n /\ p.n <= hi
ValidListRequest(q) ==
    /\ Len(q.search) <= 1
    /\ Len(q.project) <= 1
    /\ q.page.t = "absent" \/ (q.page.t = "digits" /\ q.page.n >= 1)
    /\ q.pageSize.t = "absent" \/ IsIntegerIn(q.pageSize, 1, 100)

\* C6: a valid list request is answered 200 with at most pageSize items, meta
\* echoing page and pageSize, total the number of selected records and
\* totalPages = ceil(total / pageSize), 0 when nothing is selected.
C6_ListMeta ==
    \A s \in Slots :
        (Done(s, "list") /\ ValidListRequest(reqs[s].input)) =>
            /\ reqs[s].status = 200
            /\ LET q == reqs[s].input
                   meta == reqs[s].body.meta
               IN  /\ q.page.t = "digits" => meta.page = q.page.n
                   /\ q.pageSize.t = "digits" => meta.pageSize = q.pageSize.n
                   /\ meta.pageSize >= 1
                   /\ Len(reqs[s].body.items) <= meta.pageSize
                   /\ meta.total = Cardinality(Selected(reqs[s].filters))
                   /\ meta.totalPages * meta.pageSize >= meta.total
                   /\ (meta.totalPages - 1) * meta.pageSize < meta.total
                   /\ meta.total = 0 => meta.totalPages = 0

C6_ThreeRecordsTwoPages ==
    /\ Done(1, "list")
    /\ reqs[1].status = 200
    /\ reqs[1].input.page = Digits(1)
    /\ reqs[1].input.pageSize = Digits(2)
    /\ reqs[1].body.meta.total = 3
    /\ reqs[1].body.meta.totalPages = 2
    /\ Len(reqs[1].body.items) = 2

\* the records one of whose name, unitNumber, project contains s, case ignored
Containing(str) ==
    { r \in store :
        \/ IsSubstring(ToLower(str), ToLower(r.name))
        \/ IsSubstring(ToLower(str), ToLower(r.unitNumber))
        \/ IsSubstring(ToLower(str), ToLower(r.project)) }

\* C7: a list request with a non-empty search s and no project filter counts
\* and returns exactly the records containing s in name, unitNumber or
\* project: total is their number, every page is a window of them without
\* repetition, a page that covers the result holds all of them, and when
\* there are none the items are empty and total is 0.
C7_SearchFindsContaining ==
    \A s \in Slots :
        (Done(s, "list") /\ reqs[s].status = 200
            /\ Truthy(reqs[s].filters.search) /\ ~Truthy(reqs[s].filters.project)) =>
            LET f == reqs[s].filters
                C == Containing(f.search[1])
                items == reqs[s].body.items
                total == reqs[s].body.meta.total
            IN  /\ total = Cardinality(C)
                /\ Range(items) \subseteq Serialized(C)
                /\ Cardinality(Range(items)) = Len(items)
                /\ Len(items) = Min(f.pageSize, Max(0, total - (f.page - 1) * f.pageSize))
                /\ (f.page = 1 /\ f.pageSize >= total) => Range(items) = Serialized(C)
                /\ C = {} => (items = <<>> /\ total = 0)

C7_FoundByProjectOnly ==
    /\ Done(1, "list")
    /\ reqs[1].status = 200
    /\ Truthy(reqs[1].filters.search)
    /\ ~Truthy(reqs[1].filters.project)
    /\ \E i \in 1..Len(reqs[1].body.items) :
          LET r == reqs[1].body.items[i]
              str == ToLower(reqs[1].filters.search[1])
          IN  /\ ~IsSubstring(str, ToLower(r.name))
              /\ ~IsSubstring(str, ToLower(r.unitNumber))
              /\ IsSubstring(str, ToLower(r.project))
    /\ \E r \in store : r \notin Containing(reqs[1].filters.search[1])

\* C8: with both search and project given, every returned record satisfies
\* both conditions and total counts exactly the records satisfying both.
C8_SearchAndProject ==
    \A s \in Slots :
        (Done(s, "list") /\ reqs[s].status = 200
            /\ Truthy(reqs[s].filters.search) /\ Truthy(reqs[s].filters.project)) =>
            LET f == reqs[s].filters
                Both == { r \in Containing(f.search[1]) :
                            IsSubstring(ToLower(f.project[1]), ToLower(r.project)) }
            IN  /\ Range(reqs[s].body.items) \subseteq Serialized(Both)
                /\ reqs[s].body.meta.total = Cardinality(Both)

C8_OneConditionIsNotEnough ==
    /\ Done(1, "list")
    /\ reqs[1].status = 200
    /\ Truthy(reqs[1].filters.search)
    /\ Truthy(reqs[1].filters.project)
    /\ reqs[1].body.meta.total >= 1
    /\ \E r \in Containing(reqs[1].filters.search[1]) :
          ~IsSubstring(ToLower(reqs[1].filters.project[1]), ToLower(r.project))
    /\ \E r \in store :
          /\ IsSubstring(ToLower(reqs[1].filters.project[1]), ToLower(r.project))
          /\ r \notin Containing(reqs[1].filters.search[1])

\* a create body that breaks a rule of the create schema
BreaksCreateSchema(b) ==
    \/ b.name = <<>>
    \/ b.unitNumber = <<>>
    \/ b.project = <<>>
    \/ b.bedrooms.twice < 0 \/ b.bedrooms.twice % 2 # 0
    \/ b.bathrooms.twice < 0 \/ b.bathrooms.twice % 2 # 0
    \/ b.price.twice < 0
    \/ b.area.twice <= 0

\* C9: a list request or create request that fails schema validation is
\* answered 400 and has made no database call.
C9_InvalidRejectedBeforeDatabase ==
    \A s \in Slots :
        /\ (reqs[s].kind = "list" /\ reqs[s].pc # "idle" /\ ~ValidListRequest(reqs[s].input))
              => (reqs[s].pc = "done" /\ reqs[s].status = 400 /\ reqs[s].dbOps = 0)
        /\ (reqs[s].kind = "create" /\ reqs[s].pc # "idle" /\ BreaksCreateSchema(reqs[s].input))
              => (reqs[s].pc = "done" /\ reqs[s].status = 400 /\ reqs[s].dbOps = 0)

C9_OversizedPageRejected ==
    /\ Done(1, "list")
    /\ reqs[1].input.pageSize = Digits(PageSizeLimit + 1)
    /\ reqs[1].input.page = Digits(1)
    /\ reqs[1].status = 400
    /\ store # {}

Ascending(seq) == \A i, j \in 1..Len(seq) : i < j => StrLess(seq[i], seq[j])

\* C10: the projects endpoint returns exactly the project values of the
\* stored records, each once, in ascending order; a list request, whatever
\* its filters and pagination, leaves what the endpoint returns the same; and
\* after a successful create the result contains the new record's project.
C10_ProjectsSortedDistinctComplete ==
    \A s \in Slots :
        /\ Done(s, "projects") =>
              /\ reqs[s].status = 200
              /\ Range(reqs[s].body) = { r.project : r \in store }
              /\ Ascending(reqs[s].body)
        /\ (Done(s, "list") \/ (Done(s, "create") /\ reqs[s].status = 201)) =>
              \A rows \in Orderings(store) :
                  /\ Range(ListProjectsResult(rows)) = { r.project : r \in store }
                  /\ Ascending(ListProjectsResult(rows))
                  /\ reqs[s].kind = "create" => reqs[s].body.project \in Range(ListProjectsResult(rows))

C10_SharedProjectListedOnce ==
    /\ Done(1, "projects")
    /\ Cardinality(store) = 3
    /\ Len(reqs[1].body) = 2
    /\ \E a, b \in store : a # b /\ a.project = b.project
    /\ \E a, b \in store : a.id < b.id /\ StrLess(b.project, a.project)

(***************************************************************************)
(* The browser client.                                                     *)
(***************************************************************************)
\* the current query has no response yet: its request is under way or failed
Awaiting(c) == c.lastData # <<>> /\ Data(c) = <<>>

\* C11: once a list fetch has succeeded, while the fetch for a new query is
\* under way or has failed the client shows the grid of the most recent
\* successful response, never the loading placeholder or the empty state.
C11_GridKeptWhileAwaiting ==
    (Awaiting(client) /\ Len(client.lastData[1].items) > 0)
        => View(client) = [kind |-> "grid", items |-> client.lastData[1].items]

\* the key of the first page under the submitted filters
FirstPageKey(c, newSearch, newProject) ==
    [search |-> newSearch, project |-> newProject, page |-> 1, pageSize |-> c.pageSize]

\* the step leaves the client on the first page of the submitted filters, and
\* a list request it sends is the one for that page
Submitted(newSearch, newProject) ==
    /\ client'.page = 1
    /\ client'.search = newSearch
    /\ client'.project = newProject
    /\ Query(client') = FirstPageKey(client, newSearch, newProject)
    /\ client'.inflight \ client.inflight \subseteq { FirstPageKey(client, newSearch, newProject) }
    /\ FirstPageKey(client, newSearch, newProject) \in client'.inflight \cup DOMAIN client'.cache

\* C12: every filter submission, by the Search button or by Reset, sets the
\* page to 1 together with the submitted search text and project, so that the
\* next list request carries page 1 and the new filters.
C12_FilterSubmissionResetsPage ==
    [][ /\ onSubmit(client'.form.search, client'.form.project)
              => Submitted(client'.form.search, client'.form.project)
        /\ resetFilters => Submitted(<<>>, <<>>) ]_vars

\* the form was submitted while page 2 of the unfiltered list was shown
C12_SubmittedFromSecondPage ==
    /\ client.lastData # <<>>
    /\ client.lastData[1].meta.page = 2
    /\ client.lastData[1].meta.total = SeedRecords
    /\ Query(client) = FirstPageKey(client, <<"a">>, <<"a", "b">>)
    /\ Query(client) \in client.inflight

\* p is a page of the snapshot the client renders
InRenderedRange(c, p) == 1 <= p /\ p <= RenderData(c).meta.totalPages

\* C13: whenever the pagination controls are available, a click on Previous
\* or Next never produces a page below 1 or above the totalPages of the
\* snapshot rendered at the click: Previous gives max(1, page - 1) and Next
\* gives min(totalPages, page + 1).
C13_PagerStaysInRenderedRange ==
    [][ /\ onPrev => /\ client'.page = Max(1, client.page - 1)
                     /\ InRenderedRange(client, client'.page)
        /\ onNext => /\ client'.page = Min(RenderData(client).meta.totalPages, client.page + 1)
                     /\ InRenderedRange(client, client'.page) ]_vars

(***************************************************************************)
(* The image loader.                                                       *)
(***************************************************************************)
\* C14: while src stays the same the retry counter never exceeds retryCount;
\* the k-th retry is scheduled k seconds after the k-th failure; and the
\* fallback is shown and onError called only after the initial attempt and
\* all retryCount retries have failed.
C14_RetriesBoundedAndSpaced ==
    /\ [](/\ img.retries <= img.retryCount
          /\ \A tm \in img.timers :
                /\ tm.retries + 1 = img.failures
                /\ tm.delay = img.failures
                /\ tm.due <= img.now + tm.delay
          /\ img.hasError => (img.failures = img.retryCount + 1 /\ img.retries = img.retryCount)
          /\ img.onErrorCalls = (IF img.hasError THEN 1 ELSE 0))
    /\ [][ /\ (ImageFails /\ ~img'.hasError) =>
                 \E tm \in img'.timers \ img.timers :
                     /\ img'.failures = img.retries + 1
                     /\ tm.due = img.now + img'.failures
           /\ \A tm \in img.timers :
                 TimerFires(tm) => (img'.retries = img.failures /\ img.now = tm.due) ]_vars

\* retryCount 2: the third failure, three seconds after the first, brings the
\* fallback
C14_FallbackAfterThreeFailures ==
    /\ img.hasError
    /\ img.retryCount = 2
    /\ img.failures = 3
    /\ img.retries = 2
    /\ img.now = 3
    /\ img.onErrorCalls = 1

\* C15: whenever the src prop changes, the retry counter returns to 0, the
\* error flag is cleared, the loading flag is set and the URL being loaded
\* becomes the new src.
C15_SrcChangeResets ==
    [][ img'.src # img.src =>
            /\ img'.retries = 0
            /\ ~img'.hasError
            /\ img'.isLoading
            /\ img'.currentSrc = PlainUrl(img'.src) ]_vars

\* the parent passed another src after the fallback had been shown for the
\* first one
C15_ResetAfterFallback ==
    /\ img.src # FirstSrc
    /\ img.changes = 1
    /\ img.onErrorCalls = 1
    /\ img.failures = 0
    /\ img.retries = 0
    /\ ~img.hasError
    /\ img.isLoading
    /\ img.currentSrc = PlainUrl(img.src)

(***************************************************************************)
(* The backend: what the operations do to the store, lookup by id, pages   *)
(* beyond the end, pagination defaults.                                    *)
(***************************************************************************)
\* the request of slot s is answered at this step
Answered(s) == reqs[s].pc # "done" /\ reqs'[s].pc = "done"

\* C16: no operation removes or changes a stored record; the only change of
\* the store is the addition of exactly one record by a successful create;
\* every GET and every failed create leaves the store as it was.
C16_StoreChangesOnlyByCreate ==
    [][ /\ store \subseteq store'
        /\ store' # store =>
              \E s \in Slots :
                  /\ Answered(s)
                  /\ reqs'[s].kind = "create"
                  /\ reqs'[s].status = 201
                  /\ Cardinality(store' \ store) = 1
                  /\ reqs'[s].body \in Serialized(store' \ store)
        /\ \A s \in Slots :
              (Answered(s) /\ ~(reqs'[s].kind = "create" /\ reqs'[s].status = 201))
                  => store' = store ]_vars

\* a create refused by the schema, answered while two records are stored
C16_RefusedCreateOnFilledStore ==
    /\ Done(1, "create")
    /\ reqs[1].status = 400
    /\ Cardinality(store) = 2

\* the stored records of id i
WithId(i) == { r \in store : r.id = i }

\* C17: a successful create responds 201 with the stored record, whose id
\* differs from the ids of all other records; afterwards GET /:id with that
\* id returns that record; and the unfiltered total is one more than before.
C17_CreatedRecordStoredUnderFreshId ==
    /\ [](\A s \in Slots :
            /\ (Done(s, "create") /\ reqs[s].status = 201) =>
                  /\ reqs[s].body \in Serialized(store)
                  /\ Cardinality(WithId(reqs[s].body.id)) = 1
            /\ \A r \in store :
                  (Done(s, "get") /\ reqs[s].input = r.id) =>
                      /\ reqs[s].status = 200
                      /\ reqs[s].body = serializeApartment(r))
    /\ [][ \A s \in Slots :
              (Answered(s) /\ reqs'[s].kind = "create" /\ reqs'[s].status = 201) =>
                  /\ Count(store', NoFilters) = Count(store, NoFilters) + 1
                  /\ WithId(reqs'[s].body.id) = {} ]_vars

\* the second record created has been fetched by its id
C17_SecondRecordFetched ==
    /\ Done(1, "get")
    /\ reqs[1].status = 200
    /\ Cardinality(store) = 2
    /\ reqs[1].body.id = 2
    /\ reqs[1].body \in Serialized(store)

\* C18: GET /:id answers 200 with the record of that id if there is one and
\* 404 with the not-found message otherwise; it never returns a record of
\* another id.
C18_GetByIdExact ==
    \A s \in Slots :
        Done(s, "get") =>
            IF WithId(reqs[s].input) # {}
            THEN /\ reqs[s].status = 200
                 /\ reqs[s].body.id = reqs[s].input
                 /\ reqs[s].body \in Serialized(WithId(reqs[s].input))
            ELSE /\ reqs[s].status = 404
                 /\ reqs[s].body.message = "Apartment not found"

\* an id no record has, asked for while other records are stored
C18_UnknownIdNotFound ==
    /\ Done(1, "get")
    /\ reqs[1].status = 404
    /\ Cardinality(store) = 2
    /\ reqs[1].input = 3

\* the request of slot s asks for a page after the last page of its selection
BeyondLastPage(s) ==
    /\ ValidListRequest(reqs[s].input)
    /\ reqs[s].input.page.t = "digits"
    /\ reqs[s].input.page.n >
           CeilDiv(Cardinality(Selected(reqs[s].filters)), reqs[s].filters.pageSize)

\* C19: a valid list request for a page after the last one is answered 200
\* with no items and with meta carrying the requested page and the true total
\* and totalPages; it is neither rejected nor moved to the last page.
C19_PageBeyondEndIsEmpty ==
    \A s \in Slots :
        (Done(s, "list") /\ BeyondLastPage(s)) =>
            /\ reqs[s].status = 200
            /\ reqs[s].body.items = <<>>
            /\ reqs[s].body.meta.page = reqs[s].input.page.n
            /\ reqs[s].body.meta.total = Cardinality(Selected(reqs[s].filters))
            /\ reqs[s].body.meta.totalPages =
                   CeilDiv(Cardinality(Selected(reqs[s].filters)), reqs[s].filters.pageSize)

\* page 3 of three records in pages of two
C19_ThirdPageOfTwo ==
    /\ Done(1, "list")
    /\ BeyondLastPage(1)
    /\ reqs[1].input.page = Digits(3)
    /\ reqs[1].input.pageSize = Digits(2)
    /\ reqs[1].body.meta.total = 3
    /\ reqs[1].body.meta.totalPages = 2
    /\ reqs[1].body.items = <<>>

\* docs/API.md, query parameters of GET /api/apartments: pageSize "Default: 9"
DocumentedPageSize == 9

\* C20: a list request without pagination parameters is served with page 1
\* and a page size of 9: meta.page = 1, meta.pageSize = 9, at most 9 items.
C20_DefaultPageSizeNine ==
    \A s \in Slots :
        (/\ Done(s, "list")
         /\ reqs[s].status = 200
         /\ reqs[s].input.page.t = "absent"
         /\ reqs[s].input.pageSize.t = "absent") =>
            /\ reqs[s].body.meta.page = 1
            /\ reqs[s].body.meta.pageSize = DocumentedPageSize
            /\ Len(reqs[s].body.items) <= DocumentedPageSize

(***************************************************************************)
(* Failures of the database.                                               *)
(***************************************************************************)
GenericMessage == "Internal server error"

\* C21: a failure that is no validation, not-found or conflict error, such as
\* a rejected database call during list, project enumeration, get by id or
\* create, is answered 500 with the fixed generic message and nothing of the
\* underlying error.
C21_StorageFailureAnsweredGeneric500 ==
    \A s \in Slots :
        (reqs[s].pc = "done" /\ reqs[s].error # <<>>) =>
            /\ reqs[s].status = 500
            /\ DOMAIN reqs[s].body = {"message"}
            /\ reqs[s].body.message = GenericMessage
            /\ reqs[s].body.message # reqs[s].error[1]

\* the count of a list request rejected after its page had been read
C21_ListFailedHalfway ==
    /\ Done(1, "list")
    /\ reqs[1].error = <<"query timed out">>
    /\ reqs[1].dbOps = 2
    /\ reqs[1].status = 500
    /\ store # {}

(***************************************************************************)
(* The browser client: responses that arrive late.                         *)
(***************************************************************************)
\* the response for key k is outstanding, the user has moved on to another
\* query, and that query's response has been received
Superseded(c, k) == k \in c.inflight /\ k # Query(c) /\ Data(c) # <<>>

\* C22 as stated: the response to an earlier query, arriving after the newer
\* query's response has been received, overwrites newer state: the snapshot
\* rendered or kept as last known good is then the earlier query's.
C22_LateResponseOverwrites ==
    [][ \A k \in client.inflight :
           (Superseded(client, k) /\ FetchSucceeds(k)) =>
               \/ RenderData(client') = client'.cache[k]
               \/ client'.lastData = <<client'.cache[k]>> ]_vars

\* C22, amended: superseded list fetches are not cancelled, but a response is
\* stored under the key it was requested for: once the response of the
\* current query has been received, the snapshot rendered and the one kept
\* as last known good are that response, and the arrival of an earlier
\* query's response changes neither.
C22_LateResponseChangesNothingShown ==
    /\ [](Data(client) # <<>> =>
             /\ RenderData(client) = client.cache[Query(client)]
             /\ client.lastData = <<client.cache[Query(client)]>>)
    /\ [][ \A k \in client.inflight :
              (Superseded(client, k) /\ FetchSucceeds(k)) =>
                  /\ k \in DOMAIN client'.cache
                  /\ RenderData(client') = RenderData(client)
                  /\ View(client') = View(client)
                  /\ client'.lastData = client.lastData ]_vars

\* the first request is still outstanding although the response for the
\* search submitted after it has been received and differs from its own
C22_FirstRequestOutlived ==
    /\ Superseded(client, [search |-> <<>>, project |-> <<>>, page |-> InitialPage,
                           pageSize |-> ClientPageSize])
    /\ client.search = <<"a">>
    /\ DOMAIN client.cache = { Query(client) }
    /\ client.lastData = <<client.cache[Query(client)]>>
    /\ client.cache[Query(client)].meta.total < SeedRecords

\* the number of pages the store holds for the filters of key k
RealTotalPages(k) == FetchApartments(store, k).data.meta.totalPages

\* C23: every list request the client issues has a page within the real page
\* range of the filters it carries, 1 <= page <= max(1, totalPages), whatever
\* the interleaving of filter submissions, Previous/Next clicks and response
\* arrivals.
C23_RequestedPageInRealRange ==
    \A k \in client.inflight : 1 <= k.page /\ k.page <= Max(1, RealTotalPages(k))

(***************************************************************************)
(* The image loader: timers and a changing src.                            *)
(***************************************************************************)
\* C24: after the src prop has changed, no retry scheduled for the previous
\* src takes effect: the URL being loaded is always the current src, with or
\* without retry parameters, and the retry counter counts only failures of
\* the current src, even when a timer was pending at the change.
C24_NoRetryOfPreviousSrc ==
    /\ img.currentSrc.base = img.src
    /\ img.retries <= img.failures

(***************************************************************************)
(* The backend: list requests while records are created.                   *)
(***************************************************************************)
\* how many items page `page` of `total` records holds
PageLength(total, page, pageSize) == Min(pageSize, Max(0, total - (page - 1) * pageSize))

\* C25: the items and meta.total of one list response describe the same
\* state of the store: items.length = min(pageSize, max(0, total - (page - 1)
\* * pageSize)), even when a create completes between the page fetch and the
\* count.
C25_ItemsAgreeWithTotal ==
    \A s \in Slots :
        (Done(s, "list") /\ reqs[s].status = 200) =>
            Len(reqs[s].body.items) =
                PageLength(reqs[s].body.meta.total, reqs[s].body.meta.page,
                           reqs[s].body.meta.pageSize)

\* the ids of the items of the response in slot s
ItemIds(s) == { reqs[s].body.items[i].id : i \in 1..Len(reqs[s].body.items) }

\* the responses in slots s and t are pages p and p + 1 of the same filters
\* and page size
ConsecutivePages(s, t) ==
    /\ Done(s, "list") /\ reqs[s].status = 200
    /\ Done(t, "list") /\ reqs[t].status = 200
    /\ reqs[s].filters.search = reqs[t].filters.search
    /\ reqs[s].filters.project = reqs[t].filters.project
    /\ reqs[s].filters.pageSize = reqs[t].filters.pageSize
    /\ reqs[t].filters.page = reqs[s].filters.page + 1

\* C29: across two successive list requests for pages p and p + 1 with the
\* same filters and page size, no record is returned on both pages, even if
\* a create of a matching record completes between the two requests.  Stated
\* for stores whose records all differ in createdAt, where the order of the
\* rows is determined.
C29_NoRecordOnBothPages ==
    \A s, t \in Slots :
        (ConsecutivePages(s, t) /\ DistinctTimes(store)) => ItemIds(s) \cap ItemIds(t) = {}

\* C26: if every load of a src fails and src does not change, the loader
\* eventually shows the fallback, after exactly retryCount + 1 failed loads,
\* and from then on starts no further load of that src; with retryCount 0
\* the first failure shows the fallback at once.
C26_FallbackAfterAllRetriesFailed ==
    /\ <>img.hasError
    /\ [](img.hasError =>
             /\ img.failures = img.retryCount + 1
             /\ ~img.loading
             /\ img.timers = {})
    /\ [][ img.hasError =>
              /\ img'.hasError
              /\ img'.currentSrc = img.currentSrc
              /\ img'.failures = img.failures ]_vars

\* retryCount 0: the first failure, at second 0, has brought the fallback
C26_FallbackAtOnce ==
    /\ img.hasError
    /\ img.retryCount = 0
    /\ img.failures = 1
    /\ img.retries = 0
    /\ img.now = 0

(***************************************************************************)
(* The browser client: scroll position.                                    *)
(***************************************************************************)
\* the step is a filter submission or a click on Previous or Next
UserAction ==
    \/ onSubmit(client'.form.search, client'.form.project)
    \/ resetFilters
    \/ onPrev
    \/ onNext

\* the step is the arrival of new data for the query on screen
CurrentDataArrives ==
    /\ Query(client) \in client.inflight
    /\ FetchSucceeds(Query(client))
    /\ Data(client') # Data(client)

\* C27: every filter submission and every click on Previous or Next records
\* the vertical scroll offset before the state change; when the data for the
\* resulting query arrives the window is scrolled to the recorded offset; and
\* the offset applied is always the one recorded by the most recent such
\* action.
C27_ScrollRestoredToLastRecorded ==
    [][ /\ UserAction => client'.scrollPos = client.scrollY
        /\ client'.scrollPos # client.scrollPos => UserAction
        /\ CurrentDataArrives => client'.scrollY = client.scrollPos
        /\ (client'.scrollY # client.scrollY /\ ~(\E y \in 0..MaxScroll : Scroll(y)))
              => client'.scrollY = client'.scrollPos ]_vars

\* Next was clicked at offset 1 and the user has scrolled on to offset 2
\* while the response for page 2 is outstanding
C27_ScrolledWhileWaiting ==
    /\ client.scrollPos = 1
    /\ client.scrollY = 2
    /\ client.page = 2
    /\ Query(client) \in client.inflight
    /\ Data(client) = <<>>
    /\ client.lastData # <<>>


\* the (id, updatedAt) pairs of an item list, in the order of the list
Pairs(items) == [i \in 1..Len(items) |-> <<items[i].id, items[i].updatedAt>>]

\* the set of (id, updatedAt) pairs of an item list
PairSet(items) == { Pairs(items)[i] : i \in 1..Len(items) }

\* C28: the grid is re-rendered exactly when the set of (id, updatedAt)
\* pairs of the item list changes: a new array with the same set of pairs
\* does not re-render it, and any change of that set does.
C28_RerenderedIffPairSetChanges ==
    [][grid'.rendered <=> PairSet(grid'.items) # PairSet(grid.items)]_vars

\* C28: the grid is re-rendered exactly when the sequence of (id, updatedAt)
\* pairs of the item list changes: a new array holding the same pairs in the
\* same order does not re-render it, and any change of a pair, of the number
\* of items or of their order does.
C28_RerenderedIffPairsChange ==
    [][grid'.rendered <=> Pairs(grid'.items) # Pairs(grid.items)]_vars

\* a list of several items was handed to the grid again and the grid was
\* left as it was
C28_SameListNotRerendered == Len(grid.items) > 1 /\ ~grid.rendered


\* the projects of the stored records that the items of a response show
ProjectsShown(data) ==
    { r.project : r \in { x \in store : \E i \in 1..Len(data.items) : data.items[i].id = x.id } }

\* C30: a filter submitted with a project name chosen from the options of
\* the select returns only records of that project, whatever names are
\* stored, one name contained in another included.
C30_ChosenProjectOnly ==
    \A k \in DOMAIN client.cache :
        k.project \in ProjectOptions \ { <<>> } => ProjectsShown(client.cache[k]) \subseteq {k.project}

====
